---- MODULE Spec2Model ----
(***************************************************************************)
(* State-machine model of tortoise/api.py: the module-level stop flag and  *)
(* its poll, fix_autoregressive_output, and the stages of                  *)
(* TextToSpeech.tts (seeding, text validation, conditioning, candidate     *)
(* generation, ranking, selection, decoding) with the device residency of  *)
(* the models.  Neural networks are opaque: the sampler's outputs are      *)
(* drawn from a small set, the two scorers are fixed functions of the      *)
(* candidate.  The device is assumed not to be DirectML                    *)
(* (get_device_name() # "dml").                                            *)
(***************************************************************************)
EXTENDS Integers, Sequences, FiniteSets, TLC

(***************************************************************************)
(* Bounds of the model.                                                    *)
(***************************************************************************)
MaxSamples == 2
MaxBatch == 2
MaxK == 2
MaxClips == 2
MaxMelTokens == 13
MaxCodeLen == 5
MaxLength == 4
MaxSlices == 3
\* The autoregressive_batch_size the object is constructed with.
CtorBatchSize == 1

(***************************************************************************)
(* Program constants.                                                      *)
(***************************************************************************)
calm_token == 83
\* self.autoregressive.stop_mel_token (line 588) is read from the loaded model;
\* 8193 stands for it, a value outside the speech codes 0..8191.
StopMelToken == 8193
TextTokenLimit == 400
DefaultBreathingRoom == 8
TailTokens == <<45, 45, 248>>

(***************************************************************************)
(* Value domains of the inputs and of the opaque networks' outputs.        *)
(***************************************************************************)
None == 0 - 1
SpeechTokens == {7}
Tokens == SpeechTokens \cup {45, calm_token, StopMelToken}
Seeds == {1}
Clock == {2}
AmountDen == 3
CvvpAmounts == 0..AmountDen
EncodedLengths == (TextTokenLimit - 2)..TextTokenLimit

Min(a, b) == IF a < b THEN a ELSE b

Range(s) == {s[i] : i \in DOMAIN s}

RECURSIVE SumSeq(_)
SumSeq(s) == IF Len(s) = 0 THEN 0 ELSE Head(s) + SumSeq(Tail(s))

RECURSIVE Flatten(_)
Flatten(ss) == IF Len(ss) = 0 THEN <<>> ELSE Head(ss) \o Flatten(Tail(ss))

RECURSIVE Factorial(_)
Factorial(n) == IF n <= 1 THEN 1 ELSE n * Factorial(n - 1)

\* Scores are exact rationals kept as numerators over this common denominator.
ClipDen == Factorial(MaxClips)
ScoreDen == ClipDen * AmountDen

(***************************************************************************)
(* check_for_kill_signal: the value of STOP_SIGNAL after the poll and      *)
(* whether the poll raises.                                                *)
(***************************************************************************)
check_for_kill_signal_swallows(signal) ==
    [raised |-> FALSE, STOP_SIGNAL |-> FALSE]

check_for_kill_signal_keeps_flag(signal) ==
    [raised |-> signal, STOP_SIGNAL |-> signal]

check_for_kill_signal(signal) ==
    IF signal
    THEN [raised |-> TRUE, STOP_SIGNAL |-> FALSE]
    ELSE [raised |-> FALSE, STOP_SIGNAL |-> signal]

(***************************************************************************)
(* fix_autoregressive_output on a 1-D tensor of codes (1-based here).      *)
(* The tensor is modified in place, so the codes written before an         *)
(* IndexError (a tensor shorter than the three-token tail) stay written.   *)
(***************************************************************************)
StopTokenIndices(codes, stop_token) == {i \in DOMAIN codes : codes[i] = stop_token}

SetMin(S) == CHOOSE m \in S : \A x \in S : m <= x

\* codes[stop_token_indices] = 83 ; codes[stm:] = 83
CalmFrom(codes, stop_token) ==
    LET idx == StopTokenIndices(codes, stop_token)
        stm == SetMin(idx)
    IN  [i \in DOMAIN codes |-> IF i \in idx \/ i >= stm THEN calm_token ELSE codes[i]]

\* codes[stop_token_indices] = 83 alone, without the fill from the first stop on.
CalmStopsOnly(codes, stop_token) ==
    [i \in DOMAIN codes |-> IF codes[i] = stop_token THEN calm_token ELSE codes[i]]

\* codes[-3] = 45 ; codes[-2] = 45 ; codes[-1] = 248
WriteTail(codes) ==
    LET n == Len(codes)
    IN  [i \in DOMAIN codes |-> IF i >= n - 2 THEN TailTokens[i - (n - 3)] ELSE codes[i]]

fix_autoregressive_output_always_tail(codes, stop_token) ==
    IF Len(codes) < 3
    THEN [codes |-> codes, raised |-> TRUE, complained |-> FALSE]
    ELSE [codes |-> WriteTail(codes), raised |-> FALSE, complained |-> FALSE]

fix_autoregressive_output_no_fill(codes, stop_token) ==
    IF StopTokenIndices(codes, stop_token) = {}
    THEN [codes |-> codes, raised |-> FALSE, complained |-> TRUE]
    ELSE LET calmed == CalmStopsOnly(codes, stop_token)
         IN  IF Len(codes) < 3
             THEN [codes |-> calmed, raised |-> TRUE, complained |-> FALSE]
             ELSE [codes |-> WriteTail(calmed), raised |-> FALSE, complained |-> FALSE]

fix_autoregressive_output(codes, stop_token) ==
    IF StopTokenIndices(codes, stop_token) = {}
    THEN [codes |-> codes, raised |-> FALSE, complained |-> TRUE]
    ELSE LET calmed == CalmFrom(codes, stop_token)
             stm == SetMin(StopTokenIndices(codes, stop_token)) - 1
         IN  IF stm - 3 < Len(codes)
             THEN IF Len(codes) < 3
                  THEN [codes |-> calmed, raised |-> TRUE, complained |-> FALSE]
                  ELSE [codes |-> WriteTail(calmed), raised |-> FALSE, complained |-> FALSE]
             ELSE [codes |-> calmed, raised |-> FALSE, complained |-> FALSE]

(***************************************************************************)
(* Random sources.  A generator's state is the seed it was last seeded     *)
(* with and the number of values drawn since; an unseeded generator has    *)
(* seed None.                                                              *)
(***************************************************************************)
Seeded(seed) == [seed |-> seed, pos |-> 0]

Advance(rng) == [rng EXCEPT !.pos = @ + 1]

\* n draws from rng, in order.
DrawsFrom(src, rng, n) == [j \in 1..n |-> [src |-> src, seed |-> rng.seed, pos |-> rng.pos + j - 1]]

AdvanceBy(rng, n) == [rng EXCEPT !.pos = @ + n]

\* deterministic_state(seed) at wall-clock time now.
deterministic_state_torch_only(seed, now, py) ==
    LET s == IF seed = None THEN now ELSE seed
    IN  [seed |-> s, torch_rng |-> Seeded(s), py_rng |-> py]

deterministic_state(seed, now, py) ==
    LET s == IF seed = None THEN now ELSE seed
    IN  [seed |-> s, torch_rng |-> Seeded(s), py_rng |-> Seeded(s)]

(***************************************************************************)
(* The text-length assertion of tts.                                       *)
(***************************************************************************)
TextFitsOffByOne(n_tokens) == n_tokens <= TextTokenLimit

TextFits(n_tokens) == n_tokens < TextTokenLimit

(***************************************************************************)
(* Batching of tts.                                                        *)
(***************************************************************************)
BatchSize(sample_batch_size, device_batch_size) ==
    IF sample_batch_size = None \/ sample_batch_size = 0
    THEN device_batch_size
    ELSE sample_batch_size

NumBatches(n_samples, batch_size) == n_samples \div batch_size

NumSamples(n_samples, batch_size) == IF n_samples < batch_size THEN 1 ELSE n_samples

\* F.pad(codes, (0, max_mel_tokens - codes.shape[1]), value=stop_mel_token)
PadCodes(codes, max_mel_tokens) ==
    [i \in 1..max_mel_tokens |-> IF i <= Len(codes) THEN codes[i] ELSE StopMelToken]

\* Outputs of autoregressive.inference_speech considered: speech that fills
\* max_generate_length, and speech that stops early enough for the padding to
\* leave more than the default breathing room of silence before the tail.
InferenceOutputs(max_generate_length) ==
    {[i \in 1..n |-> t] :
        n \in {max_generate_length - (DefaultBreathingRoom + 4), max_generate_length},
        t \in SpeechTokens}

(***************************************************************************)
(* The scoring networks are fixed functions of their inputs.  These stand  *)
(* in for CLVP (text against codes) and CVVP (one reference clip against   *)
(* codes): they disagree on the order of the candidates, CVVP differs from *)
(* clip to clip, and equal codes score equal.                              *)
(***************************************************************************)
CountOf(codes, tokens) == Cardinality({i \in DOMAIN codes : codes[i] \in tokens})

ClvpModel(codes) == CountOf(codes, SpeechTokens)

CvvpModel(clip, codes) == clip * CountOf(codes, {45})

(***************************************************************************)
(* Scoring of tts: one candidate's entry of clip_results, a rational with  *)
(* denominator ScoreDen.  clvp is None when the name is unbound, cvvps      *)
(* holds the CVVP output per reference clip.                                *)
(***************************************************************************)
UsesClvp(amount) == amount # AmountDen

UsesCvvp(n_conds, amount) == n_conds > 0 /\ amount > 0

CvvpMean(cvvps) == SumSeq(cvvps) * (ClipDen \div Len(cvvps))

ClipResultSwapped(clvp_score, cvvps, n_conds, amount) ==
    IF n_conds > 0 /\ amount > 0
    THEN IF amount = AmountDen
         THEN CvvpMean(cvvps) * AmountDen
         ELSE CvvpMean(cvvps) * (AmountDen - amount) + clvp_score * ClipDen * amount
    ELSE clvp_score * ScoreDen

ClipResult(clvp_score, cvvps, n_conds, amount) ==
    IF UsesCvvp(n_conds, amount)
    THEN IF amount = AmountDen
         THEN CvvpMean(cvvps) * AmountDen
         ELSE CvvpMean(cvvps) * amount + clvp_score * ClipDen * (AmountDen - amount)
    ELSE clvp_score * ScoreDen

(***************************************************************************)
(* torch.topk(scores, k).indices for k <= Len(scores): k distinct indices, *)
(* in descending order of score, none scoring below an index left out.     *)
(* The order among equal scores is not specified by the library.           *)
(***************************************************************************)
TopK(scores, kk) ==
    {s \in [1..kk -> DOMAIN scores] :
        /\ \A i, j \in 1..kk : i < j => (s[i] # s[j] /\ scores[s[i]] >= scores[s[j]])
        /\ \A u \in DOMAIN scores \ Range(s) : \A i \in 1..kk : scores[u] <= scores[s[i]]}

(***************************************************************************)
(* The breathing-room cut of tts: the length the latents are cut to.       *)
(***************************************************************************)
RECURSIVE CalmRun(_, _)
\* ctokens after reading codes[1..i]
CalmRun(codes, i) ==
    IF i = 0 THEN 0
    ELSE IF codes[i] = calm_token THEN CalmRun(codes, i - 1) + 1 ELSE 0

TrimLatentsAtRoom(codes, room) ==
    LET over == {i \in DOMAIN codes : CalmRun(codes, i) >= room}
    IN  IF over = {} THEN Len(codes) ELSE SetMin(over) - 1

TrimLatents(codes, room) ==
    LET over == {i \in DOMAIN codes : CalmRun(codes, i) > room}
    IN  IF over = {} THEN Len(codes) ELSE SetMin(over) - 1

(***************************************************************************)
(* Slicing of get_conditioning_latents.                                    *)
(***************************************************************************)
CeilDiv(a, b) == (a + b - 1) \div b

RECURSIVE GrowSlices(_, _, _)
GrowSlices(chunk_size, slices, max_chunk_size) ==
    IF chunk_size \div slices > max_chunk_size
    THEN GrowSlices(chunk_size, slices + 1, max_chunk_size)
    ELSE slices

SliceCount(chunk_size, slices, max_chunk_size) ==
    IF slices = 0 THEN 1
    ELSE IF max_chunk_size # None /\ chunk_size > max_chunk_size
         THEN GrowSlices(chunk_size, 1, max_chunk_size)
         ELSE slices

\* len(torch.chunk(concat, slices, dim=1))
TorchChunkCount(length, slices) == CeilDiv(length, CeilDiv(length, slices))

\* torch.chunk(concat, slices, dim=1), as the lengths of the chunks: chunks of
\* ceil(length / slices), the last one holding what is left.
TorchChunk(length, slices) ==
    LET size == CeilDiv(length, slices)
        n == TorchChunkCount(length, slices)
    IN  [i \in 1..n |-> IF i < n THEN size ELSE length - (n - 1) * size]

\* pad_or_truncate(t, length), as the length of the result.
pad_or_truncate(t, length) ==
    IF t = length THEN t
    ELSE IF t < length THEN t + (length - t)
    ELSE length

(***************************************************************************)
(* State.                                                                  *)
(*   STOP_SIGNAL                      the module-level flag                *)
(*   preloaded_tensors .. rlg_diffusion   fields of the TextToSpeech       *)
(*       object; a model field holds where the model resides ("cpu",       *)
(*       "device") or "None" when it is not loaded                         *)
(*   cvvp_loads, rlg_loads            how many times the loading of CVVP   *)
(*       and of the random-latent generators was entered                   *)
(*   loaded                           the lazy fields whose load_state_dict *)
(*       has completed                                                     *)
(*   torch_rng, py_rng                torch's and random's generators      *)
(*   pc, outcome                      position of the call in flight and   *)
(*       how the last call ended                                           *)
(*   use_deterministic_seed .. res    arguments and locals of tts          *)
(*   slicing                          arguments and locals of the slicing  *)
(*       of get_conditioning_latents while it runs; chunks and             *)
(*       diffusion_conds hold lengths                                      *)
(*   draws, polls                     the random values drawn and the      *)
(*       number of kill-signal polls made by the call                      *)
(*   fix_in, fix_out                  argument and result of a direct call *)
(*       of fix_autoregressive_output                                      *)
(***************************************************************************)
VARIABLES STOP_SIGNAL,
          preloaded_tensors, minor_optimizations, autoregressive_batch_size,
          autoregressive, diffusion, clvp, cvvp, vocoder,
          rlg_auto, rlg_diffusion, cvvp_loads, rlg_loads, loaded,
          torch_rng, py_rng,
          pc, outcome,
          use_deterministic_seed, deterministic_seed, text_tokens,
          voice_samples, auto_conds, slicing, chunks, diffusion_conds,
          sample_batch_size, num_batches, num_autoregressive_samples, samples,
          cvvp_amount, clvp_out, cvvp_out, clip_results,
          k, best_results, wav_candidates, res,
          draws, polls,
          fix_in, fix_out

configVars == <<preloaded_tensors, minor_optimizations>>
deviceVars == <<autoregressive, diffusion, clvp, cvvp, vocoder>>
rlgVars == <<rlg_auto, rlg_diffusion>>
loadVars == <<cvvp_loads, rlg_loads, loaded>>
rngVars == <<torch_rng, py_rng, draws>>
seedVars == <<use_deterministic_seed, deterministic_seed, text_tokens>>
condVars == <<voice_samples, auto_conds, slicing, chunks, diffusion_conds>>
genVars == <<sample_batch_size, num_batches, num_autoregressive_samples, samples>>
rankVars == <<cvvp_amount, clvp_out, cvvp_out, clip_results>>
outVars == <<k, best_results, wav_candidates, res>>
fixVars == <<fix_in, fix_out>>

vars == <<STOP_SIGNAL, configVars, loadVars, autoregressive_batch_size, deviceVars, rlgVars,
          rngVars, pc, outcome, seedVars, condVars, genVars, rankVars, outVars,
          polls, fixVars>>

max_mel_tokens == MaxMelTokens
breathing_room == DefaultBreathingRoom

\* voice_samples: a list of reference clips, each longer than cond_length or not.
VoiceSamples == UNION {[1..n -> BOOLEAN] : n \in 1..MaxClips}

\* TextToSpeech.__init__
InitObject(minor, batch_size) ==
    /\ preloaded_tensors = minor
    /\ minor_optimizations = minor
    /\ autoregressive_batch_size = batch_size
    /\ autoregressive = IF minor THEN "device" ELSE "cpu"
    /\ diffusion = IF minor THEN "device" ELSE "cpu"
    /\ clvp = IF minor THEN "device" ELSE "cpu"
    /\ vocoder = IF minor THEN "device" ELSE "cpu"
    /\ cvvp = "None"
    /\ rlg_auto = "None"
    /\ rlg_diffusion = "None"
    /\ cvvp_loads = 0
    /\ rlg_loads = 0
    /\ loaded = {}

InitCall ==
    /\ STOP_SIGNAL = FALSE
    /\ torch_rng = Seeded(None)
    /\ py_rng = Seeded(None)
    /\ pc = "idle"
    /\ outcome = "none"
    /\ use_deterministic_seed = None
    /\ deterministic_seed = None
    /\ text_tokens = 0
    /\ voice_samples = 0
    /\ auto_conds = 0
    /\ slicing = <<>>
    /\ chunks = <<>>
    /\ diffusion_conds = <<>>
    /\ num_batches = 0
    /\ num_autoregressive_samples = 0
    /\ sample_batch_size = None
    /\ samples = <<>>
    /\ cvvp_amount = 0
    /\ clvp_out = <<>>
    /\ cvvp_out = <<>>
    /\ clip_results = <<>>
    /\ k = 0
    /\ best_results = <<>>
    /\ wav_candidates = <<>>
    /\ res = <<>>
    /\ draws = <<>>
    /\ polls = 0

Init ==
    /\ \E minor \in BOOLEAN : InitObject(minor, CtorBatchSize)
    /\ InitCall
    /\ fix_in = <<>>
    /\ fix_out = <<>>

\* Another thread of the process sets the flag.
SetStopSignal ==
    /\ ~STOP_SIGNAL
    /\ STOP_SIGNAL' = TRUE
    /\ UNCHANGED <<configVars, loadVars, autoregressive_batch_size, deviceVars, rlgVars, rngVars,
                   pc, outcome, seedVars, condVars, genVars, rankVars, outVars,
                   polls, fixVars>>

\* An exception leaves the call.
Raise(exception) ==
    /\ pc' = "idle"
    /\ outcome' = exception

\* tts, lines 552-562: seeding, tokenizing, the length assertion.
TtsBegin ==
    /\ pc = "idle"
    /\ \E seed \in {None} \cup Seeds, now \in Clock, encoded \in EncodedLengths :
          LET state == deterministic_state(seed, now, py_rng)
          IN  /\ use_deterministic_seed' = seed
              /\ deterministic_seed' = state.seed
              /\ torch_rng' = state.torch_rng
              /\ py_rng' = state.py_rng
              /\ text_tokens' = encoded + 1
              /\ IF TextFits(encoded + 1)
                 THEN pc' = "cond" /\ outcome' = "none"
                 ELSE Raise("AssertionError")
    /\ draws' = <<>>
    /\ polls' = 0
    /\ voice_samples' = 0
    /\ auto_conds' = 0
    /\ slicing' = <<>>
    /\ chunks' = <<>>
    /\ diffusion_conds' = <<>>
    /\ num_batches' = 0
    /\ num_autoregressive_samples' = 0
    /\ sample_batch_size' = None
    /\ samples' = <<>>
    /\ cvvp_amount' = 0
    /\ clvp_out' = <<>>
    /\ cvvp_out' = <<>>
    /\ clip_results' = <<>>
    /\ k' = 0
    /\ best_results' = <<>>
    /\ wav_candidates' = <<>>
    /\ res' = <<>>
    /\ UNCHANGED <<STOP_SIGNAL, configVars, loadVars, autoregressive_batch_size, deviceVars,
                   rlgVars, fixVars>>

\* get_conditioning_latents, lines 378-434: the clips are formatted (one random
\* crop per clip longer than cond_length), the autoregressive conditioning is
\* computed, the concatenated buffer of the given length is sliced, and
\* tqdm_override polls before the loop over the chunks.
GclSlice(n_clips, long, length, slices_arg, max_chunk_size, loop_pc) ==
    LET poll == check_for_kill_signal(STOP_SIGNAL)
        used == SliceCount(length, slices_arg, max_chunk_size)
        parts == TorchChunk(length, used)
    IN  /\ voice_samples' = n_clips
        /\ draws' = draws \o DrawsFrom("random", py_rng, long)
        /\ py_rng' = AdvanceBy(py_rng, long)
        /\ autoregressive' = IF preloaded_tensors THEN "device" ELSE "cpu"
        /\ slicing' = <<[concat |-> length, requested |-> slices_arg,
                         max_chunk_size |-> max_chunk_size, slices |-> used,
                         chunk_size |-> parts[1]]>>
        /\ chunks' = parts
        /\ diffusion_conds' = <<>>
        /\ STOP_SIGNAL' = poll.STOP_SIGNAL
        /\ polls' = polls + 1
        /\ IF poll.raised
           THEN Raise("KillSignal")
           ELSE pc' = loop_pc /\ outcome' = outcome

\* tts, lines 565-568: get_conditioning_latents(voice_samples, return_mels=True),
\* with its default slices=1 and max_chunk_size=None.
TtsConditioningSamples ==
    /\ pc = "cond"
    /\ \E clips \in VoiceSamples, length \in 1..MaxLength :
          GclSlice(Len(clips), Cardinality({i \in DOMAIN clips : clips[i]}),
                   length, 1, None, "gcl_chunks")
    /\ UNCHANGED <<configVars, loadVars, autoregressive_batch_size, diffusion, clvp, cvvp, vocoder,
                   rlgVars, torch_rng, seedVars, auto_conds, genVars,
                   rankVars, outVars, fixVars>>

\* get_conditioning_latents called on its own with slices and max_chunk_size.  It
\* reads preloaded_tensors and the stop flag only, so it is explored on the
\* freshly constructed object, with clips no longer than cond_length.
GclCall ==
    /\ pc = "idle"
    /\ outcome = "none"
    /\ \E n_clips \in 1..MaxClips, length \in 1..MaxLength, slices_arg \in 0..MaxSlices,
          max_chunk_size \in {None} \cup 1..MaxLength :
          GclSlice(n_clips, 0, length, slices_arg, max_chunk_size, "gcl_direct")
    /\ UNCHANGED <<configVars, loadVars, autoregressive_batch_size, diffusion, clvp, cvvp, vocoder,
                   rlgVars, torch_rng, seedVars, auto_conds, genVars,
                   rankVars, outVars, fixVars>>

\* get_conditioning_latents, lines 435-438: one chunk of the loop.
GclChunk ==
    /\ pc \in {"gcl_chunks", "gcl_direct"}
    /\ Len(diffusion_conds) < Len(chunks)
    /\ LET poll == check_for_kill_signal(STOP_SIGNAL)
           chunk == chunks[Len(diffusion_conds) + 1]
       IN  /\ STOP_SIGNAL' = poll.STOP_SIGNAL
           /\ polls' = polls + 1
           /\ IF poll.raised
              THEN Raise("KillSignal") /\ diffusion_conds' = diffusion_conds
              ELSE /\ diffusion_conds' = Append(diffusion_conds,
                          pad_or_truncate(chunk, slicing[1].chunk_size))
                   /\ UNCHANGED <<pc, outcome>>
    /\ UNCHANGED <<configVars, loadVars, autoregressive_batch_size, deviceVars, rlgVars, rngVars,
                   seedVars, voice_samples, auto_conds, slicing, chunks, genVars,
                   rankVars, outVars, fixVars>>

\* get_conditioning_latents, lines 440-454, and the return into tts, line 566.
GclEnd ==
    /\ pc = "gcl_chunks"
    /\ Len(diffusion_conds) = Len(chunks)
    /\ diffusion' = IF preloaded_tensors THEN "device" ELSE "cpu"
    /\ auto_conds' = voice_samples
    /\ slicing' = <<>>
    /\ chunks' = <<>>
    /\ diffusion_conds' = <<>>
    /\ pc' = "gen_setup"
    /\ UNCHANGED <<STOP_SIGNAL, configVars, loadVars, autoregressive_batch_size, autoregressive,
                   clvp, cvvp, vocoder, rlgVars, rngVars, outcome, seedVars,
                   voice_samples, genVars, rankVars, outVars, polls, fixVars>>

\* get_conditioning_latents, lines 440-454, and the return to its caller.
GclReturn ==
    /\ pc = "gcl_direct"
    /\ Len(diffusion_conds) = Len(chunks)
    /\ diffusion' = IF preloaded_tensors THEN "device" ELSE "cpu"
    /\ voice_samples' = 0
    /\ slicing' = <<>>
    /\ chunks' = <<>>
    /\ diffusion_conds' = <<>>
    /\ polls' = 0
    /\ pc' = "idle"
    /\ UNCHANGED <<STOP_SIGNAL, configVars, loadVars, autoregressive_batch_size, autoregressive,
                   clvp, cvvp, vocoder, rlgVars, rngVars, outcome, seedVars,
                   auto_conds, genVars, rankVars, outVars, fixVars>>

\* tts, lines 569-574: precomputed latents, with or without the mel summaries.
TtsConditioningLatents ==
    /\ pc = "cond"
    /\ \E n_conds \in 0..MaxClips : auto_conds' = n_conds
    /\ pc' = "gen_setup"
    /\ UNCHANGED <<STOP_SIGNAL, configVars, loadVars, autoregressive_batch_size, deviceVars,
                   rlgVars, rngVars, outcome, seedVars, voice_samples, slicing, chunks,
                   diffusion_conds, genVars, rankVars, outVars, polls, fixVars>>

\* What torch.load and load_state_dict can do at lines 365, 460-461 and
\* 463-464: complete, or raise because the checkpoint is missing or unreadable.
LoadResults == {"loaded", "LoadError"}

\* The checkpoints are in place and readable: every load completes.
Readable == {"loaded"}

\* get_random_conditioning_latents, lines 456-466: the generators are loaded
\* when rlg_auto is None, and applied to a constant.  Each field is assigned
\* before its weights are loaded, so a load that raises leaves the fields
\* assigned so far in place.  results is what the loads may do, exception what
\* the call raises, "none" when it returns; calling rlg_diffusion while it is
\* None raises TypeError.
RlgMissingAlways(generator) == TRUE

RlgMissing(generator) == generator = "None"

get_random_conditioning_latents(results, exception) ==
    IF RlgMissing(rlg_auto)
    THEN /\ rlg_auto' = "cpu"
         /\ rlg_loads' = rlg_loads + 1
         /\ \E auto_load, diffusion_load \in results :
               IF auto_load = "LoadError"
               THEN /\ rlg_diffusion' = rlg_diffusion
                    /\ loaded' = loaded
                    /\ exception = "LoadError"
               ELSE /\ rlg_diffusion' = "cpu"
                    /\ IF diffusion_load = "LoadError"
                       THEN /\ loaded' = loaded \cup {"rlg_auto"}
                            /\ exception = "LoadError"
                       ELSE /\ loaded' = loaded \cup {"rlg_auto", "rlg_diffusion"}
                            /\ exception = "none"
    ELSE /\ UNCHANGED <<rlgVars, rlg_loads, loaded>>
         /\ exception = IF rlg_diffusion = "None" THEN "TypeError" ELSE "none"

\* What get_random_conditioning_latents can raise.
RandomLatentsExceptions == {"none", "LoadError", "TypeError"}

\* tts, lines 575-576: neither voice samples nor latents were given.
ConditioningRandom(results) ==
    /\ pc = "cond"
    /\ \E exception \in RandomLatentsExceptions :
          /\ get_random_conditioning_latents(results, exception)
          /\ IF exception = "none"
             THEN pc' = "gen_setup" /\ outcome' = outcome
             ELSE Raise(exception)
    /\ UNCHANGED <<STOP_SIGNAL, configVars, cvvp_loads, autoregressive_batch_size,
                   deviceVars, rngVars, seedVars, condVars, genVars, rankVars,
                   outVars, polls, fixVars>>

TtsConditioningRandom == ConditioningRandom(Readable)

TtsConditioningRandomLoad == ConditioningRandom(LoadResults)

\* get_random_conditioning_latents called on its own, between calls of tts.
\* What it returns or raises goes to its caller and leaves no trace in the
\* object.
RandomLatents(results) ==
    /\ pc = "idle"
    /\ \E exception \in RandomLatentsExceptions :
          get_random_conditioning_latents(results, exception)
    /\ UNCHANGED <<STOP_SIGNAL, configVars, cvvp_loads, autoregressive_batch_size,
                   deviceVars, rngVars, pc, outcome, seedVars, condVars, genVars,
                   rankVars, outVars, polls, fixVars>>

RandomLatentsCall == RandomLatents(Readable)

RandomLatentsCallLoad == RandomLatents(LoadResults)

\* tts, lines 578-596: the batch size, the number of batches, the autoregressive
\* model moved to the device, and the poll of tqdm_override.
TtsGenSetup ==
    /\ pc = "gen_setup"
    /\ \E n_samples \in 1..MaxSamples, own \in {None} \cup 0..MaxBatch,
          device_batch_size \in 1..MaxBatch :
          LET batch_size == BatchSize(own, device_batch_size)
          IN  /\ sample_batch_size' = own
              /\ autoregressive_batch_size' = batch_size
              /\ num_batches' = NumBatches(n_samples, batch_size)
              /\ num_autoregressive_samples' = NumSamples(n_samples, batch_size)
    /\ autoregressive' = "device"
    /\ LET poll == check_for_kill_signal(STOP_SIGNAL)
       IN  /\ STOP_SIGNAL' = poll.STOP_SIGNAL
           /\ polls' = polls + 1
           /\ IF poll.raised
              THEN Raise("KillSignal")
              ELSE pc' = "gen_loop" /\ outcome' = outcome
    /\ UNCHANGED <<configVars, loadVars, diffusion, clvp, cvvp, vocoder, rlgVars, rngVars,
                   seedVars, condVars, samples, rankVars, outVars, fixVars>>

\* tts, lines 598-610: one batch of the generation loop.
TtsGenBatch ==
    /\ pc = "gen_loop"
    /\ Len(samples) < num_batches
    /\ LET poll == check_for_kill_signal(STOP_SIGNAL)
       IN  /\ STOP_SIGNAL' = poll.STOP_SIGNAL
           /\ polls' = polls + 1
           /\ IF poll.raised
              THEN Raise("KillSignal") /\ UNCHANGED <<samples, rngVars>>
              ELSE /\ \E codes \in [1..autoregressive_batch_size ->
                                        InferenceOutputs(max_mel_tokens)] :
                         samples' = Append(samples,
                             [i \in 1..autoregressive_batch_size |->
                                 PadCodes(codes[i], max_mel_tokens)])
                   /\ draws' = draws \o DrawsFrom("torch", torch_rng, 1)
                   /\ torch_rng' = Advance(torch_rng)
                   /\ py_rng' = py_rng
                   /\ UNCHANGED <<pc, outcome>>
    /\ UNCHANGED <<configVars, loadVars, autoregressive_batch_size, deviceVars, rlgVars, seedVars,
                   condVars, sample_batch_size, num_batches, num_autoregressive_samples,
                   rankVars, outVars,
                   fixVars>>

\* load_cvvp, lines 360-368: the field the call leaves behind.  The scorer is
\* built on the host and assigned at line 362, before its weights are loaded at
\* line 365; line 368 is reached only when the load completed.
load_cvvp(result) == IF result = "loaded" /\ preloaded_tensors THEN "device" ELSE "cpu"

\* tts, lines 626-628: CVVP is loaded when it is wanted and not there yet.
CvvpMissingAlways(scorer, amount) == amount > 0

CvvpMissing(scorer, amount) == amount > 0 /\ scorer = "None"

\* tts, lines 612-639: the models of the ranking stage are brought in, CVVP is
\* loaded on first use, and tqdm_override polls.  A load that raises ends the
\* call at line 628, after the moves of lines 612-625 and before the poll.
\* sample_batch_size is not read after line 581; the model forgets it once
\* generation is over.
RankSetup(results) ==
    /\ pc = "gen_loop"
    /\ Len(samples) = num_batches
    /\ \E amount \in CvvpAmounts, result \in results :
          LET missing == CvvpMissing(cvvp, amount)
              failed == missing /\ result = "LoadError"
              field == IF missing THEN load_cvvp(result) ELSE cvvp
          IN  /\ cvvp_amount' = amount
              /\ cvvp_loads' = IF missing THEN cvvp_loads + 1 ELSE cvvp_loads
              /\ loaded' = IF missing /\ ~failed THEN loaded \cup {"cvvp"} ELSE loaded
              /\ cvvp' = IF amount > 0 /\ ~minor_optimizations /\ ~failed
                         THEN "device"
                         ELSE field
              /\ rlg_loads' = rlg_loads
              /\ IF failed
                 THEN /\ Raise("LoadError")
                      /\ UNCHANGED <<STOP_SIGNAL, polls>>
                 ELSE LET poll == check_for_kill_signal(STOP_SIGNAL)
                      IN  /\ STOP_SIGNAL' = poll.STOP_SIGNAL
                          /\ polls' = polls + 1
                          /\ IF poll.raised
                             THEN Raise("KillSignal")
                             ELSE pc' = "score_loop" /\ outcome' = outcome
    /\ autoregressive' = IF ~preloaded_tensors \/ ~minor_optimizations
                         THEN "cpu"
                         ELSE autoregressive
    /\ clvp' = IF ~minor_optimizations THEN "device" ELSE clvp
    /\ sample_batch_size' = None
    /\ UNCHANGED <<configVars, autoregressive_batch_size, diffusion, vocoder, rlgVars,
                   rngVars, seedVars, condVars, num_batches, num_autoregressive_samples,
                   samples, clvp_out, cvvp_out, clip_results, outVars, fixVars>>

TtsRankSetup == RankSetup(Readable)

TtsRankSetupLoad == RankSetup(LoadResults)

\* tts, lines 640-658: one batch of the scoring loop.  The batch is repaired in
\* place, then scored; clvp is unbound when cvvp_amount is 1.
TtsScoreBatch ==
    /\ pc = "score_loop"
    /\ Len(clip_results) < Len(samples)
    /\ LET poll == check_for_kill_signal(STOP_SIGNAL)
           b == Len(clip_results) + 1
           batch == samples[b]
           fixed == [i \in DOMAIN batch |-> fix_autoregressive_output(batch[i], StopMelToken)]
           failing == {i \in DOMAIN batch : fixed[i].raised}
       IN  /\ STOP_SIGNAL' = poll.STOP_SIGNAL
           /\ polls' = polls + 1
           /\ IF poll.raised
              THEN Raise("KillSignal") /\ UNCHANGED <<samples, clvp_out, cvvp_out, clip_results>>
              ELSE IF failing # {}
              THEN /\ Raise("IndexError")
                   /\ samples' = [samples EXCEPT ![b] =
                          [i \in DOMAIN batch |->
                              IF i <= SetMin(failing) THEN fixed[i].codes ELSE batch[i]]]
                   /\ UNCHANGED <<clvp_out, cvvp_out, clip_results>>
              ELSE /\ samples' = [samples EXCEPT ![b] = [i \in DOMAIN batch |-> fixed[i].codes]]
                   /\ LET text_scores == IF UsesClvp(cvvp_amount)
                                          THEN [i \in DOMAIN batch |-> ClvpModel(fixed[i].codes)]
                                          ELSE <<>>
                          voice_scores == IF UsesCvvp(auto_conds, cvvp_amount)
                                          THEN [i \in DOMAIN batch |->
                                                   [cl \in 1..auto_conds |->
                                                       CvvpModel(cl, fixed[i].codes)]]
                                          ELSE <<>>
                      IN /\ clvp_out' = clvp_out \o text_scores
                         /\ cvvp_out' = cvvp_out \o voice_scores
                         /\ IF ~UsesCvvp(auto_conds, cvvp_amount) /\ ~UsesClvp(cvvp_amount)
                            THEN Raise("UnboundLocalError") /\ clip_results' = clip_results
                            ELSE /\ clip_results' = Append(clip_results,
                                        [i \in DOMAIN batch |->
                                            ClipResult(
                                                IF UsesClvp(cvvp_amount) THEN text_scores[i] ELSE None,
                                                IF UsesCvvp(auto_conds, cvvp_amount)
                                                THEN voice_scores[i] ELSE <<>>,
                                                auto_conds, cvvp_amount)])
                                 /\ UNCHANGED <<pc, outcome>>
    /\ UNCHANGED <<configVars, loadVars, autoregressive_batch_size, deviceVars, rlgVars, rngVars,
                   seedVars, condVars, sample_batch_size, num_batches,
                   num_autoregressive_samples,
                   cvvp_amount, outVars, fixVars>>

\* tts, lines 660-712: the scores and candidates are concatenated, the best k are
\* taken, their latents are recomputed, and the models of the decoding stage are
\* brought in.  torch.cat raises on an empty list, torch.topk on k above the
\* number of scores.
TtsSelect ==
    /\ pc = "score_loop"
    /\ Len(clip_results) = Len(samples)
    /\ IF Len(clip_results) = 0
       THEN /\ Raise("RuntimeError_cat")
            /\ UNCHANGED <<k, best_results, deviceVars>>
       ELSE \E kk \in 1..MaxK :
               /\ k' = kk
               /\ IF kk > Len(Flatten(clip_results))
                  THEN /\ Raise("RuntimeError_topk")
                       /\ UNCHANGED <<best_results, deviceVars>>
                  ELSE /\ \E indices \in TopK(Flatten(clip_results), kk) :
                              best_results' = indices
                       /\ clvp' = IF ~preloaded_tensors THEN "cpu" ELSE clvp
                       /\ cvvp' = IF ~preloaded_tensors /\ cvvp # "None" THEN "cpu" ELSE cvvp
                       /\ autoregressive' = IF ~preloaded_tensors THEN "cpu" ELSE "device"
                       /\ diffusion' = "device"
                       /\ vocoder' = "device"
                       /\ pc' = "decode"
                       /\ outcome' = outcome
    /\ UNCHANGED <<STOP_SIGNAL, configVars, loadVars, autoregressive_batch_size, rlgVars, rngVars,
                   seedVars, condVars, genVars, rankVars, wav_candidates, res, polls,
                   fixVars>>

\* tts, lines 715-738: one winner is cut at the breathing room, decoded by the
\* diffusion model from fresh noise, and vocoded.
TtsDecode ==
    /\ pc = "decode"
    /\ Len(wav_candidates) < Len(best_results)
    /\ LET b == Len(wav_candidates) + 1
           codes == Flatten(samples)[best_results[b]]
       IN  wav_candidates' = Append(wav_candidates,
               [candidate |-> best_results[b],
                latents |-> TrimLatents(codes, breathing_room)])
    /\ draws' = draws \o DrawsFrom("torch", torch_rng, 1)
    /\ torch_rng' = Advance(torch_rng)
    /\ py_rng' = py_rng
    /\ UNCHANGED <<STOP_SIGNAL, configVars, loadVars, autoregressive_batch_size, deviceVars,
                   rlgVars, pc, outcome, seedVars, condVars, genVars, rankVars, k,
                   best_results, res, polls, fixVars>>

\* tts, lines 740-762: the decoding models are moved out, the clips are redacted
\* and returned; with return_deterministic_state the local deterministic_seed is
\* returned with them.
TtsFinishAfterFirst ==
    /\ pc = "decode"
    /\ Len(wav_candidates) >= 1
    /\ diffusion' = IF ~preloaded_tensors THEN "cpu" ELSE diffusion
    /\ vocoder' = IF ~preloaded_tensors THEN "cpu" ELSE vocoder
    /\ res' = wav_candidates
    /\ pc' = "idle"
    /\ outcome' = "returned"
    /\ UNCHANGED <<STOP_SIGNAL, configVars, loadVars, autoregressive_batch_size,
                   autoregressive, clvp, cvvp, rlgVars, rngVars, seedVars, condVars,
                   genVars, rankVars, k, best_results, wav_candidates, polls, fixVars>>

TtsFinish ==
    /\ pc = "decode"
    /\ Len(wav_candidates) = Len(best_results)
    /\ diffusion' = IF ~preloaded_tensors THEN "cpu" ELSE diffusion
    /\ vocoder' = IF ~preloaded_tensors THEN "cpu" ELSE vocoder
    /\ res' = wav_candidates
    /\ pc' = "idle"
    /\ outcome' = "returned"
    /\ UNCHANGED <<STOP_SIGNAL, configVars, loadVars, autoregressive_batch_size, autoregressive,
                   clvp, cvvp, rlgVars, rngVars, seedVars, condVars, genVars, rankVars,
                   k, best_results, wav_candidates, polls, fixVars>>

(***************************************************************************)
(* fix_autoregressive_output called on its own, on every sequence of       *)
(* tokens up to MaxCodeLen.  Its result does not depend on the state, so   *)
(* the call is explored from the freshly constructed object only.          *)
(***************************************************************************)
CodeSequences == UNION {[1..n -> Tokens] : n \in 0..MaxCodeLen}

FixCall ==
    /\ pc = "idle"
    /\ outcome = "none"
    /\ \E codes \in CodeSequences :
          /\ fix_in' = codes
          /\ fix_out' = <<fix_autoregressive_output(codes, StopMelToken)>>
    /\ pc' = "fix_done"
    /\ UNCHANGED <<STOP_SIGNAL, configVars, loadVars, autoregressive_batch_size, deviceVars,
                   rlgVars, rngVars, outcome, seedVars, condVars, genVars, rankVars,
                   outVars, polls>>

FixReturn ==
    /\ pc = "fix_done"
    /\ pc' = "idle"
    /\ fix_in' = <<>>
    /\ fix_out' = <<>>
    /\ UNCHANGED <<STOP_SIGNAL, configVars, loadVars, autoregressive_batch_size, deviceVars,
                   rlgVars, rngVars, outcome, seedVars, condVars, genVars, rankVars,
                   outVars, polls>>

Next ==
    \/ SetStopSignal
    \/ TtsBegin
    \/ TtsConditioningSamples
    \/ GclCall
    \/ GclChunk
    \/ GclEnd
    \/ GclReturn
    \/ TtsConditioningLatents
    \/ TtsConditioningRandom
    \/ RandomLatentsCall
    \/ TtsGenSetup
    \/ TtsGenBatch
    \/ TtsRankSetup
    \/ TtsScoreBatch
    \/ TtsSelect
    \/ TtsDecode
    \/ TtsFinish
    \/ FixCall
    \/ FixReturn

Spec == Init /\ [][Next]_vars

\* The same program where a checkpoint may be missing or unreadable.
NextLoad ==
    \/ Next
    \/ TtsConditioningRandomLoad
    \/ RandomLatentsCallLoad
    \/ TtsRankSetupLoad

SpecLoad == Init /\ [][NextLoad]_vars

(***************************************************************************)
(* Properties.                                                             *)
(***************************************************************************)
Candidates == Flatten(samples)
Scored == Flatten(clip_results)
HasStop(codes) == StopTokenIndices(codes, StopMelToken) # {}

\* C1: a kill-signal poll that finds STOP_SIGNAL set ends the call with the
\* kill exception at that poll, runs no further generation batch, scoring batch
\* or chunk, and leaves the flag false; the kill exception arises in no other
\* way, so a call that follows without a new signal is not aborted by it.
C1_KillPollAborts ==
    [][ /\ (polls' = polls + 1 /\ STOP_SIGNAL) =>
              /\ pc' = "idle"
              /\ outcome' = "KillSignal"
              /\ ~STOP_SIGNAL'
              /\ samples' = samples
              /\ clip_results' = clip_results
              /\ diffusion_conds' = diffusion_conds
        /\ (polls' = polls + 1 /\ ~STOP_SIGNAL) => outcome' # "KillSignal"
        /\ (outcome' = "KillSignal" /\ outcome # "KillSignal") =>
              (polls' = polls + 1 /\ STOP_SIGNAL)
      ]_vars

\* A call aborted by the signal in the middle of its generation or scoring, the
\* flag cleared.
C1_Witness ==
    /\ pc = "idle"
    /\ outcome = "KillSignal"
    /\ ~STOP_SIGNAL
    /\ Len(samples) >= 1
    /\ polls >= 3

\* C2: a call that reaches the selection with N >= 1 scored candidates and a
\* requested k >= 1 returns exactly min(k, N) waveforms, decoded from distinct
\* candidates, none of which scores below a candidate left out.
C2_ReturnsMinOfKAndN ==
    (pc = "idle" /\ k >= 1) =>
        /\ outcome = "returned"
        /\ Len(res) = Min(k, Len(Candidates))
        /\ \A i, j \in DOMAIN res : i # j => res[i].candidate # res[j].candidate
        /\ \A i \in DOMAIN res : \A u \in DOMAIN Scored :
              (\A j \in DOMAIN res : res[j].candidate # u) =>
                  Scored[u] <= Scored[res[i].candidate]

\* C3: once the generation loop is over, the number of sampling passes made is
\* ceil(totalSamples / batchSize).  (Line 587 overwrites num_autoregressive_samples
\* with 1 only when it is below the batch size, where the ceiling is 1 either way.)
C3_CeilPasses ==
    pc \in {"score_loop", "decode"} =>
        Len(samples) = CeilDiv(num_autoregressive_samples, autoregressive_batch_size)

\* C4: a call whose num_autoregressive_samples is below the batch size generates
\* exactly one candidate and goes on to rank and decode it.
C4_OneSampleBelowBatchSize ==
    (num_autoregressive_samples >= 1 /\ num_autoregressive_samples < autoregressive_batch_size) =>
        /\ pc \in {"score_loop", "decode"} => Len(Candidates) = 1
        /\ pc = "idle" => outcome # "RuntimeError_cat"

\* C5: every candidate's ranking score is cvvp*w + clvp*(1-w), with cvvp the mean
\* of the CVVP outputs over all reference clips, when 0 < w < 1 and the clip
\* summaries are there; with w = 0 it is the CLVP output alone, CVVP is never
\* run, and the candidates chosen are a top-k by the CLVP output.
C5_BlendedScore ==
    \A i \in DOMAIN Scored :
        /\ (cvvp_amount > 0 /\ cvvp_amount < AmountDen /\ auto_conds > 0) =>
              /\ clvp_out[i] = ClvpModel(Candidates[i])
              /\ DOMAIN cvvp_out[i] = 1..auto_conds
              /\ \A cl \in 1..auto_conds : cvvp_out[i][cl] = CvvpModel(cl, Candidates[i])
              /\ Scored[i] * auto_conds * AmountDen =
                     ScoreDen * (SumSeq(cvvp_out[i]) * cvvp_amount
                                 + clvp_out[i] * auto_conds * (AmountDen - cvvp_amount))
        /\ cvvp_amount = 0 =>
              /\ clvp_out[i] = ClvpModel(Candidates[i])
              /\ Scored[i] = ScoreDen * clvp_out[i]
              /\ cvvp_out = <<>>
              /\ \A b \in DOMAIN best_results : \A u \in DOMAIN clvp_out :
                    /\ \A c \in DOMAIN best_results :
                          b < c => clvp_out[best_results[b]] >= clvp_out[best_results[c]]
                    /\ (\A c \in DOMAIN best_results : best_results[c] # u) =>
                          clvp_out[u] <= clvp_out[best_results[b]]

\* Two candidates scored with a weight strictly between 0 and 1 over two
\* reference clips, their scores different.
C5_Witness ==
    /\ cvvp_amount > 0
    /\ cvvp_amount < AmountDen
    /\ auto_conds = 2
    /\ Len(Scored) = 2
    /\ Scored[1] # Scored[2]
    /\ pc = "decode"

\* The weight 0, with clip summaries at hand, and the winner chosen.
C5_WitnessZero ==
    /\ cvvp_amount = 0
    /\ auto_conds > 0
    /\ Len(Scored) = 2
    /\ Len(best_results) = 1

\* C6: with cvvp_amount = 1 a call that starts scoring never runs CLVP and ends
\* with every candidate scored, however the voice was supplied.
C6_PureCvvpCompletes ==
    (/\ cvvp_amount = AmountDen
     /\ pc = "idle"
     /\ outcome \notin {"none", "KillSignal"}
     /\ Len(samples) >= 1) =>
        /\ clvp_out = <<>>
        /\ outcome # "UnboundLocalError"
        /\ Len(Scored) = Len(Candidates)

\* C7: after fix_autoregressive_output of a sequence holding a stop token, every
\* position from the earliest stop to the end holds the silence token or, among
\* the last three, its token of the tail (45, 45, 248), and no stop token is left.
C7_CalmFromFirstStop ==
    (fix_out # <<>> /\ HasStop(fix_in)) =>
        LET out == fix_out[1].codes
            n == Len(out)
            first == SetMin(StopTokenIndices(fix_in, StopMelToken))
        IN  /\ n = Len(fix_in)
            /\ \A i \in first..n :
                  \/ out[i] = calm_token
                  \/ (n >= 3 /\ i >= n - 2 /\ out[i] = TailTokens[i - (n - 3)])
            /\ \A i \in 1..n : out[i] # StopMelToken

\* A sequence whose stop is followed by other tokens, some of them before the
\* last three positions.
C7_Witness ==
    /\ fix_out # <<>>
    /\ Len(fix_in) = 5
    /\ fix_in[1] = StopMelToken
    /\ fix_in[2] \in SpeechTokens
    /\ fix_out[1].codes[2] = calm_token

\* C8: fix_autoregressive_output returns a sequence without stop token unchanged
\* (and complains); in tts such a candidate stays as generated when its batch is
\* scored, gets its score, and takes part in the selection.
C8_NoStopIsIdentity ==
    [][ /\ (fix_out' # <<>> /\ ~HasStop(fix_in')) =>
              /\ fix_out'[1].codes = fix_in'
              /\ ~fix_out'[1].raised
              /\ fix_out'[1].complained
        /\ (pc = "score_loop" /\ polls' = polls + 1 /\ ~STOP_SIGNAL) =>
              LET b == Len(clip_results) + 1
              IN  \A i \in DOMAIN samples[b] :
                     ~HasStop(samples[b][i]) =>
                         /\ samples'[b][i] = samples[b][i]
                         /\ outcome' # "IndexError"
                         /\ pc' = "score_loop" =>
                               /\ Len(clip_results') = b
                               /\ i \in DOMAIN clip_results'[b]
        /\ (pc = "score_loop" /\ pc' = "decode") =>
              /\ Len(Scored) = Len(Candidates)
              /\ best_results' \in TopK(Scored, k')
      ]_vars

\* Of two candidates, the one generated without stop token was ranked first and
\* decoded, the other one having been repaired.
C8_Witness ==
    /\ pc = "decode"
    /\ Len(wav_candidates) >= 1
    /\ Len(Candidates) = 2
    /\ Range(Candidates[wav_candidates[1].candidate]) \subseteq SpeechTokens
    /\ 45 \in Range(Candidates[3 - wav_candidates[1].candidate])

C10_TextLimit ==
    [][ /\ (text_tokens' >= TextTokenLimit) <=> (outcome' = "AssertionError")
        /\ outcome' = "AssertionError" => pc' = "idle"
        /\ (outcome' = "AssertionError" /\ outcome # "AssertionError") => pc = "idle"
        /\ (TtsBegin /\ outcome' = "AssertionError") =>
              /\ pc' = "idle"
              /\ UNCHANGED <<deviceVars, rlgVars>>
              /\ auto_conds' = 0
              /\ voice_samples' = 0
              /\ samples' = <<>>
              /\ draws' = <<>>
              /\ polls' = 0
      ]_vars

\* A text of 399 encoded tokens, 400 with the padding, is rejected.
C10_Witness ==
    /\ outcome = "AssertionError"
    /\ text_tokens = TextTokenLimit
    /\ pc = "idle"

\* C11: when max_chunk_size M is given and below the buffer length L (and at
\* least one slice is requested), the slice count used is the smallest S with
\* ceil(L / S) <= M, no chunk is longer than M, and every chunk processed has the
\* one common length.
C11_SmallestCeilSlices ==
    (slicing # <<>> /\ slicing[1].requested >= 1
                    /\ slicing[1].max_chunk_size # None
                    /\ slicing[1].max_chunk_size < slicing[1].concat) =>
        LET g == slicing[1]
        IN  /\ CeilDiv(g.concat, g.slices) <= g.max_chunk_size
            /\ \A n \in 1..(g.slices - 1) : CeilDiv(g.concat, n) > g.max_chunk_size
            /\ \A i \in DOMAIN chunks : chunks[i] <= g.max_chunk_size
            /\ \A i \in DOMAIN diffusion_conds : diffusion_conds[i] = g.chunk_size

\* C17: the slice count used is never below the requested one (1 for a request
\* of 0), and whenever the buffer exceeds max_chunk_size, a request of 0
\* included, the count is raised until int(L / S) <= max_chunk_size.
C17_SlicesNeverBelowRequested ==
    slicing # <<>> =>
        LET g == slicing[1]
        IN  /\ g.slices >= (IF g.requested = 0 THEN 1 ELSE g.requested)
            /\ (g.max_chunk_size # None /\ g.concat > g.max_chunk_size) =>
                   g.concat \div g.slices <= g.max_chunk_size

\* C12: with preloading disabled, a step of tts that moves a model onto the device
\* leaves no model of another stage there (the autoregressive model; the CLVP and
\* CVVP scorers; the diffusion model; the vocoder), and after a normal return
\* every model is on the host.
C12_StagedResidency ==
    [][ ~preloaded_tensors =>
          LET arrives == \/ (autoregressive # "device" /\ autoregressive' = "device")
                         \/ (clvp # "device" /\ clvp' = "device")
                         \/ (cvvp # "device" /\ cvvp' = "device")
                         \/ (diffusion # "device" /\ diffusion' = "device")
                         \/ (vocoder # "device" /\ vocoder' = "device")
              resident == {st \in {"autoregressive", "ranking", "diffusion", "vocoder"} :
                              \/ (st = "autoregressive" /\ autoregressive' = "device")
                              \/ (st = "ranking" /\ (clvp' = "device" \/ cvvp' = "device"))
                              \/ (st = "diffusion" /\ diffusion' = "device")
                              \/ (st = "vocoder" /\ vocoder' = "device")}
          IN  /\ arrives => Cardinality(resident) <= 1
              /\ (pc' = "idle" /\ outcome' = "returned") =>
                     /\ resident = {}
      ]_vars

\* C13: CVVP is absent after construction, its loading is entered only by a tts
\* call with cvvp_amount > 0 that finds the field empty, and never again; the
\* loading of the random-latent generators is entered only by a call that needs
\* random latents and finds rlg_auto missing, and never again (rlg_diffusion
\* stays empty when the load of rlg_auto raised).  A call that ranks with
\* cvvp_amount > 0 has the CVVP field set.
C13_LazyLoadedOnce ==
    [][ /\ cvvp_loads' <= 1
        /\ rlg_loads' <= 1
        /\ (cvvp' = "None") <=> (cvvp_loads' = 0)
        /\ (rlg_auto' = "None") <=> (rlg_loads' = 0)
        /\ (rlg_loads' = 0) => (rlg_diffusion' = "None")
        /\ cvvp_loads' # cvvp_loads =>
              (cvvp = "None" /\ pc = "gen_loop" /\ cvvp_amount' > 0)
        /\ rlg_loads' # rlg_loads =>
              (rlg_auto = "None" /\ pc \in {"cond", "idle"})
        /\ (pc' = "score_loop" /\ cvvp_amount' > 0) => cvvp' # "None"
      ]_vars

\* A call given clip summaries ranks with CVVP after the random-latent generators
\* were loaded by an earlier call, CVVP having been loaded once.
C13_Witness ==
    /\ pc = "score_loop"
    /\ cvvp_amount > 0
    /\ auto_conds > 0
    /\ cvvp_loads = 1
    /\ rlg_loads = 1

\* C14: while a tts call that was not given a sample_batch_size of its own (None
\* or 0) generates, its batches hold as many samples as the constructor was told.
C14_CtorBatchSizeUsed ==
    (pc = "gen_loop" /\ sample_batch_size \in {None, 0}) =>
        /\ autoregressive_batch_size = CtorBatchSize
        /\ \A b \in DOMAIN samples : Len(samples[b]) = CtorBatchSize

\* C15: a generation batch runs before any ranking, a ranking batch after the last
\* generation batch and before the selection, the selection and reprojection
\* after the last ranking batch, the diffusion decoding of a winner before any
\* winner is vocoded, and the redaction after the last winner is vocoded.
C15_StagesRunToCompletion ==
    [][ /\ Len(samples') > Len(samples) =>
              (pc = "gen_loop" /\ clip_results = <<>> /\ best_results = <<>>
                               /\ wav_candidates = <<>>)
        /\ Len(clip_results') > Len(clip_results) =>
              (pc = "score_loop" /\ Len(samples) = num_batches /\ best_results = <<>>
                                 /\ wav_candidates = <<>>)
        /\ Len(best_results') > Len(best_results) =>
              (pc = "score_loop" /\ Len(clip_results) = Len(samples)
                                 /\ wav_candidates = <<>>)
        /\ Len(wav_candidates') > Len(wav_candidates) =>
              (pc = "decode" /\ Len(best_results) = k /\ wav_candidates = <<>>)
        /\ Len(res') > Len(res) =>
              (pc = "decode" /\ Len(wav_candidates) = Len(best_results))
      ]_vars

\* C15, amended: generation, ranking and selection with reprojection each finish
\* for all candidates before the next of them begins; then the winners are taken
\* one at a time in rank order, each decoded by the diffusion model and vocoded
\* before the next one is decoded; the redaction follows the last vocoding.
C15_StagesInOrder ==
    [][ /\ Len(samples') > Len(samples) =>
              (pc = "gen_loop" /\ clip_results = <<>> /\ best_results = <<>>
                               /\ wav_candidates = <<>>)
        /\ Len(clip_results') > Len(clip_results) =>
              (pc = "score_loop" /\ Len(samples) = num_batches /\ best_results = <<>>
                                 /\ wav_candidates = <<>>)
        /\ Len(best_results') > Len(best_results) =>
              (pc = "score_loop" /\ Len(clip_results) = Len(samples)
                                 /\ wav_candidates = <<>>)
        /\ Len(wav_candidates') > Len(wav_candidates) =>
              /\ pc = "decode"
              /\ Len(best_results) = k
              /\ Len(wav_candidates') = Len(wav_candidates) + 1
              /\ wav_candidates'[Len(wav_candidates')].candidate =
                     best_results[Len(wav_candidates')]
              /\ res = <<>>
        /\ Len(res') > Len(res) =>
              (pc = "decode" /\ Len(wav_candidates) = Len(best_results))
      ]_vars

\* A call returned two clips: the second winner was decoded after the first one
\* was vocoded.
C15_Witness ==
    /\ outcome = "returned"
    /\ Len(res) = 2
    /\ Len(samples) = 2

C18_TailOnlyWithRoom ==
    (fix_out # <<>> /\ HasStop(fix_in)) =>
        LET out == fix_out[1].codes
            n == Len(fix_in)
            first == SetMin(StopTokenIndices(fix_in, StopMelToken))
        IN  /\ ~fix_out[1].raised
            /\ \A i \in 1..(first - 1) : out[i] = fix_in[i]
            /\ (n >= 3 /\ first <= n - 2) <=>
                   (n >= 3 /\ \A i \in (n - 2)..n : out[i] = TailTokens[i - (n - 3)])

\* C19: with preloading disabled, a call ended by the kill signal leaves every
\* model on the host, as a normal return does.
C19_AbortLeavesHostResidency ==
    (~preloaded_tensors /\ pc = "idle" /\ outcome = "KillSignal") =>
        /\ autoregressive = "cpu"
        /\ diffusion = "cpu"
        /\ clvp = "cpu"
        /\ vocoder = "cpu"
        /\ cvvp \in {"None", "cpu"}

\* C20: the flag goes from set to clear only in a step that polls and raises the
\* kill exception, and every abort by the kill exception clears a set flag, so a
\* setting aborts exactly one call; a step that does not poll (selection,
\* reprojection, decoding, vocoding, redaction, the start of a call, a step
\* between calls) neither aborts nor touches a set flag; and a call that makes
\* its first poll with the flag set is aborted there, before any generation.
C20_FlagHeldUntilPolled ==
    [][ /\ (STOP_SIGNAL /\ ~STOP_SIGNAL') =>
              (polls' = polls + 1 /\ pc' = "idle" /\ outcome' = "KillSignal")
        /\ (outcome' = "KillSignal" /\ (outcome # "KillSignal" \/ pc # "idle")) =>
              (STOP_SIGNAL /\ ~STOP_SIGNAL' /\ polls' = polls + 1)
        /\ (STOP_SIGNAL /\ polls' # polls + 1) =>
              (STOP_SIGNAL' /\ (pc # "idle" => outcome' # "KillSignal"))
        /\ (STOP_SIGNAL /\ pc \in {"decode"}) =>
              (STOP_SIGNAL' /\ outcome' \in {"none", "returned"})
        /\ (STOP_SIGNAL /\ polls = 0 /\ polls' = 1) =>
              (outcome' = "KillSignal" /\ pc' = "idle" /\ samples' = <<>>)
      ]_vars

\* A call returned its clips although the flag was set after its last poll; the
\* flag is still set for the next call.
C20_Witness ==
    /\ pc = "idle"
    /\ outcome = "returned"
    /\ STOP_SIGNAL
    /\ Len(res) >= 1
    /\ polls >= 3

\* C21: a lazy cache field that is not None holds a model whose weights were
\* loaded, so a load that raised left its field None for the next call to load
\* again, and a call that ranks with cvvp_amount > 0 ranks with loaded weights.
C21_CacheHoldsLoadedWeights ==
    /\ cvvp # "None" => "cvvp" \in loaded
    /\ rlg_auto # "None" => "rlg_auto" \in loaded
    /\ rlg_diffusion # "None" => "rlg_diffusion" \in loaded
    /\ (pc = "score_loop" /\ cvvp_amount > 0) => "cvvp" \in loaded

\* A later call ranks with a CVVP whose load raised in an earlier call.
C21_UnloadedCvvpRanks ==
    /\ pc = "score_loop"
    /\ cvvp_amount > 0
    /\ cvvp_loads = 1
    /\ "cvvp" \notin loaded
    /\ Len(clip_results) > 0

\* A call that needs random latents ends in TypeError: the load of rlg_auto
\* raised in an earlier call and rlg_diffusion was never assigned.
C21_GeneratorNeverAssigned ==
    /\ pc = "idle"
    /\ outcome = "TypeError"
    /\ rlg_auto # "None"
    /\ rlg_diffusion = "None"

====
